---- MODULE Spec2Model ----
(***************************************************************************)
(* Model of the API consumption engine of PathFinder (library/api.py):     *)
(* ModelAPI and its three provider adapters OpenAIAPI, MistralAPI and      *)
(* AnthropicAPI.  A session owns text_to_consume (the pending text),       *)
(* prefix_text, the sampling parameters, the transcript and the            *)
(* name -> value mapping; fields (Gen, Select, Find) are resolved one at   *)
(* a time against the pending text, fetching a completion from the         *)
(* provider when the pending text is empty.                                *)
(*                                                                         *)
(* Text is a sequence of one-character strings.  Regular expressions are   *)
(* the shapes api.py builds: an optional lazy "(.*?)" followed by one atom *)
(* (a literal, \d+, or an alternation of escaped literals).                *)
(***************************************************************************)
EXTENDS Integers, Sequences, FiniteSets, TLC

VARIABLES provider, chat, text_to_consume, prefix_text, variables,
          temperature, top_p, max_tokens, seed,
          pc, call, attempts, last

vars == <<provider, chat, text_to_consume, prefix_text, variables,
          temperature, top_p, max_tokens, seed,
          pc, call, attempts, last>>

----------------------------------------------------------------------------
(* Bounds of the model *)

MaxLen == 2

MaxTurns == 2

MaxPrefix == 1

MaxFailures == 2

MaxLongLen == 3

----------------------------------------------------------------------------
(* Text *)

Newline == "\n"

Alphabet == {"a", "1", Newline}

Digits == {"1"}

Whitespace == {Newline}

Texts(n) == UNION {[1..k -> Alphabet] : k \in 0..n}

Empty == <<>>

Take(t, n) == SubSeq(t, 1, n)

Drop(t, n) == SubSeq(t, n + 1, Len(t))

startswith(t, p) == Len(p) <= Len(t) /\ Take(t, Len(p)) = p

StartsAt(t, s, i) == i + Len(s) <= Len(t) /\ SubSeq(t, i + 1, i + Len(s)) = s

Min(S) == CHOOSE x \in S : \A y \in S : x <= y

RECURSIVE LStrip(_)
LStrip(t) == IF t # Empty /\ t[1] \in Whitespace THEN LStrip(Drop(t, 1)) ELSE t

RECURSIVE RStrip(_)
RStrip(t) ==
    IF t # Empty /\ t[Len(t)] \in Whitespace THEN RStrip(Take(t, Len(t) - 1)) ELSE t

strip(t) == RStrip(LStrip(t))

can_be_int(s) ==
    LET u == strip(s) IN u # Empty /\ \A i \in 1..Len(u) : u[i] \in Digits

----------------------------------------------------------------------------
(* Regular expressions *)

NoAtom == [kind |-> "none", s |-> Empty, opts |-> <<>>]

Lit(s) == [kind |-> "lit", s |-> s, opts |-> <<>>]

DigitsAtom == [kind |-> "digits", s |-> Empty, opts |-> <<>>]

Alt(opts) == [kind |-> "alt", s |-> Empty, opts |-> opts]

RECURSIVE DigitRun(_, _)
DigitRun(t, i) ==
    IF i < Len(t) /\ t[i + 1] \in Digits THEN 1 + DigitRun(t, i + 1) ELSE 0

\* Length of the match of atom a at offset i of t (0-based), -1 when none.
AtomLen(a, t, i) ==
    CASE a.kind = "none" -> 0
      [] a.kind = "lit" -> IF StartsAt(t, a.s, i) THEN Len(a.s) ELSE -1
      [] a.kind = "digits" -> IF DigitRun(t, i) > 0 THEN DigitRun(t, i) ELSE -1
      [] a.kind = "alt" ->
            LET hits == {k \in 1..Len(a.opts) : StartsAt(t, a.opts[k], i)}
            IN  IF hits = {} THEN -1 ELSE Len(a.opts[Min(hits)])

NoSpan == [found |-> FALSE, start |-> 0, mid |-> 0, end |-> 0]

\* "." matches every character but the newline unless DOTALL is set.
DotMatches(t, i, j, dotall) == dotall \/ \A k \in (i + 1)..j : t[k] # Newline

\* The match of r that starts at offset i: the lazy group takes as little as
\* it can, the atom is greedy.  mid is where the lazy group ends.
MatchFrom(r, t, i, dotall) ==
    IF r.lazy
    THEN LET js == {j \in i..Len(t) :
                       AtomLen(r.atom, t, j) >= 0 /\ DotMatches(t, i, j, dotall)}
         IN  IF js = {} THEN NoSpan
             ELSE [found |-> TRUE, start |-> i, mid |-> Min(js),
                   end |-> Min(js) + AtomLen(r.atom, t, Min(js))]
    ELSE IF AtomLen(r.atom, t, i) < 0 THEN NoSpan
         ELSE [found |-> TRUE, start |-> i, mid |-> i,
               end |-> i + AtomLen(r.atom, t, i)]

regex_match(r, t, dotall) == MatchFrom(r, t, 0, dotall)

regex_search(r, t, dotall) ==
    LET is == {i \in 0..Len(t) : MatchFrom(r, t, i, dotall).found}
    IN  IF is = {} THEN NoSpan ELSE MatchFrom(r, t, Min(is), dotall)

Group0(t, m) == SubSeq(t, m.start + 1, m.end)

\* group(1): the lazy capture when the pattern has one, else the atom's capture.
Group1(r, t, m) ==
    IF r.lazy THEN SubSeq(t, m.start + 1, m.mid) ELSE SubSeq(t, m.start + 1, m.end)

----------------------------------------------------------------------------
(* Field specifications and the pattern each compiles to *)

Names == {"x"}

NoSampling == [temperature |-> 0, top_p |-> 0, max_tokens |-> 0]

GenSamplings == {[temperature |-> 7, top_p |-> 9, max_tokens |-> 50]}

FindSamplings == {[temperature |-> 3, top_p |-> 5, max_tokens |-> 0]}

StopRegexes == {NoAtom, Lit(<<Newline>>), DigitsAtom}

FindRegexes == {DigitsAtom, Lit(<<"a">>)}

\* Option lists: all-integer ones ("1\n" converts to int as well), and mixed
\* ones in both orders.
OptionLists ==
    {<<<<"1">>>>, <<<<"1", Newline>>>>, <<<<"a">>, <<"1">>>>, <<<<"1">>, <<"a">>>>,
     <<<<"a">>, <<"a", "1">>>>, <<<<"a", "1">>, <<"a">>>>}

Field(kind, name, pat, save, options, sampling, value) ==
    [kind |-> kind, name |-> name, pat |-> pat, save |-> save,
     options |-> options, sampling |-> sampling, value |-> value]

NoField == Field("none", "", NoAtom, FALSE, <<>>, NoSampling, Empty)

GenFields ==
    {Field("gen", n, p, s, <<>>, sp, Empty) :
        n \in Names, p \in StopRegexes, s \in BOOLEAN, sp \in GenSamplings}

SelectFields ==
    {Field("select", n, NoAtom, FALSE, o, NoSampling, Empty) :
        n \in Names, o \in OptionLists}

FindFields ==
    {Field("find", n, p, FALSE, <<>>, sp, Empty) :
        n \in Names, p \in FindRegexes, sp \in FindSamplings}

\* _get_gen: r"(.*?)" without a stop pattern, else rf"(.*?)({stop_regex})".
gen_regex(f) == [lazy |-> TRUE, atom |-> f.pat]

\* A _get_select that always builds r"(\d+)".
select_regex_digits(f) == [lazy |-> FALSE, atom |-> DigitsAtom]

\* A _get_select that always builds the alternation of the escaped options.
select_regex_alternation(f) == [lazy |-> FALSE, atom |-> Alt(f.options)]

\* _get_select: r"(\d+)" when every option converts to int, else the
\* alternation of the escaped options in the order given.
select_regex(f) ==
    IF \A k \in 1..Len(f.options) : can_be_int(f.options[k])
    THEN [lazy |-> FALSE, atom |-> DigitsAtom]
    ELSE [lazy |-> FALSE, atom |-> Alt(f.options)]

\* _get_find: the regex as supplied.
find_regex(f) == [lazy |-> FALSE, atom |-> f.pat]

----------------------------------------------------------------------------
(* Transcripts and providers *)

Providers == {"openai", "mistral", "anthropic"}

\* api_assistant: True for OpenAIAPI, False for MistralAPI and AnthropicAPI.
api_assistant(p) == p = "openai"

Roles == {"user", "assistant"}

ChatContents == {Empty, <<"a", Newline>>}

Turns == [role : Roles, content : ChatContents]

\* Only the last turn's content is ever read (the placeholder test and the
\* prompt-prefix removal); the turns before it carry a fixed content.
EarlierTurns == [role : Roles, content : {<<"a", Newline>>}]

Transcripts ==
    {c \in UNION {[1..k -> Turns] : k \in 1..MaxTurns} :
        \A i \in 1..(Len(c) - 1) : c[i] \in EarlierTurns}

LastTurn(c) == c[Len(c)]

ButLast(c) == SubSeq(c, 1, Len(c) - 1)

\* lm.chat[:-1] if the last turn is an assistant turn with empty content.
trim_placeholder(c) ==
    IF LastTurn(c).role = "assistant" /\ LastTurn(c).content = Empty
    THEN ButLast(c) ELSE c

\* tmp_chat[:-1] if tmp_chat[-1]["role"] == "assistant" (strict-turn only).
trim_assistant(c) == IF LastTurn(c).role = "assistant" THEN ButLast(c) ELSE c

\* A request_api without the test of the last role.
adapter_check_absent(p, c) ==
    IF ~api_assistant(p) /\ c = <<>> THEN "IndexError" ELSE "ok"

\* The check MistralAPI.request_api and AnthropicAPI.request_api make before
\* the network call; OpenAIAPI.request_api makes none.
adapter_check(p, c) ==
    IF api_assistant(p) THEN "ok"
    ELSE IF c = <<>> THEN "IndexError"
    ELSE IF LastTurn(c).role = "assistant" THEN "ProtocolViolation"
    ELSE "ok"

\* The transcript run/run_find hand to request_api, and what becomes of it
\* before any network call is made.
prepare(p, c) ==
    LET t1 == trim_placeholder(c)
    IN  IF api_assistant(p)
        THEN [status |-> adapter_check(p, t1), sent |-> t1]
        ELSE IF t1 = <<>> THEN [status |-> "IndexError", sent |-> t1]
        ELSE [status |-> adapter_check(p, trim_assistant(t1)),
              sent |-> trim_assistant(t1)]

ErrorKinds == {"RateLimit", "Auth"}

\* A request_api without the backoff decorator.
retried_never(p, kind) == FALSE

\* backoff.on_exception(backoff.expo, E): the call is made again when the
\* provider raises an E.  openai.RateLimitError is the rate-limit error alone;
\* MistralException and anthropic's APIStatusError are the base classes of the
\* rate-limit and of the authentication / bad-request errors alike.
retried(p, kind) ==
    CASE p = "openai" -> kind = "RateLimit"
      [] p = "mistral" -> kind \in {"RateLimit", "Auth"}
      [] p = "anthropic" -> kind \in {"RateLimit", "Auth"}

----------------------------------------------------------------------------
(* The consumption engine *)

\* An echoed-prefix cut that is one character too long.
strip_echoed_prefix_off_by_one(prefix, text) ==
    IF startswith(text, prefix)
    THEN [text |-> Drop(text, Len(prefix) + 1), prefix |-> Empty]
    ELSE [text |-> text, prefix |-> prefix]

\* Strict-turn fetch: regex.match(escape(prefix_text) + "(.*?)", text, DOTALL);
\* on a match the prefix is cut off and prefix_text reset.
strip_echoed_prefix(prefix, text) ==
    IF startswith(text, prefix)
    THEN [text |-> Drop(text, Len(prefix)), prefix |-> Empty]
    ELSE [text |-> text, prefix |-> prefix]

\* run: p = lm.chat[-1]["content"].strip(); cut p off when the text starts with it.
strip_prompt_prefix(c, text) ==
    LET p == strip(LastTurn(c).content)
    IN  IF startswith(text, p) THEN Drop(text, Len(p)) ELSE text

\* The fetch step of run once request_api has returned response.
run_fetch(p, c, prefix, response) ==
    LET n == IF api_assistant(p) THEN [text |-> response, prefix |-> prefix]
             ELSE strip_echoed_prefix(prefix, response)
    IN  [text |-> strip_prompt_prefix(c, n.text), prefix |-> n.prefix]

\* The fetch step of run_find: no prompt-prefix removal.
run_find_fetch(p, c, prefix, response) ==
    IF api_assistant(p) THEN [text |-> response, prefix |-> prefix]
    ELSE strip_echoed_prefix(prefix, response)

\* regex.findall(r, text, DOTALL)[0] for a pattern with one group.
findall_first(r, t) == Group1(r, t, regex_search(r, t, TRUE))

\* A run whose fall-through branch is taken whatever is_gen says.
run_match_fallthrough(r, t, is_gen, save_stop_text) ==
    IF regex_search(r, t, FALSE).found
    THEN LET m == regex_match(r, t, TRUE)
         IN  IF m.found
             THEN IF save_stop_text
                  THEN [status |-> "ok", res |-> Group0(t, m),
                        text |-> Drop(t, Len(Group0(t, m)))]
                  ELSE [status |-> "ok", res |-> Group1(r, t, m),
                        text |-> Drop(t, Len(Group1(r, t, m)))]
             ELSE [status |-> "ok", res |-> findall_first(r, t), text |-> Empty]
    ELSE [status |-> "ok", res |-> t, text |-> Empty]

\* A run without the fall-through branch.
run_match_no_fallthrough(r, t, is_gen, save_stop_text) ==
    IF regex_search(r, t, FALSE).found
    THEN LET m == regex_match(r, t, TRUE)
         IN  IF m.found
             THEN IF save_stop_text
                  THEN [status |-> "ok", res |-> Group0(t, m),
                        text |-> Drop(t, Len(Group0(t, m)))]
                  ELSE [status |-> "ok", res |-> Group1(r, t, m),
                        text |-> Drop(t, Len(Group1(r, t, m)))]
             ELSE [status |-> "ok", res |-> findall_first(r, t), text |-> Empty]
    ELSE [status |-> "NoMatch", res |-> Empty, text |-> t]

\* A run whose search branch cuts the pending text after the match instead of
\* resetting it.
run_match_keeping_rest(r, t, is_gen, save_stop_text) ==
    IF regex_search(r, t, FALSE).found
    THEN LET m == regex_match(r, t, TRUE)
         IN  IF m.found
             THEN IF save_stop_text
                  THEN [status |-> "ok", res |-> Group0(t, m),
                        text |-> Drop(t, Len(Group0(t, m)))]
                  ELSE [status |-> "ok", res |-> Group1(r, t, m),
                        text |-> Drop(t, Len(Group1(r, t, m)))]
             ELSE [status |-> "ok", res |-> findall_first(r, t),
                   text |-> Drop(t, regex_search(r, t, TRUE).end)]
    ELSE IF is_gen
         THEN [status |-> "ok", res |-> t, text |-> Empty]
         ELSE [status |-> "NoMatch", res |-> Empty, text |-> t]

\* The match step of run.  regex.match(r + "(.*?)", ...) spans what r spans:
\* the trailing lazy group takes nothing.
run_match(r, t, is_gen, save_stop_text) ==
    IF regex_search(r, t, FALSE).found
    THEN LET m == regex_match(r, t, TRUE)
         IN  IF m.found
             THEN IF save_stop_text
                  THEN [status |-> "ok", res |-> Group0(t, m),
                        text |-> Drop(t, Len(Group0(t, m)))]
                  ELSE [status |-> "ok", res |-> Group1(r, t, m),
                        text |-> Drop(t, Len(Group1(r, t, m)))]
             ELSE [status |-> "ok", res |-> findall_first(r, t), text |-> Empty]
    ELSE IF is_gen
         THEN [status |-> "ok", res |-> t, text |-> Empty]
         ELSE [status |-> "NoMatch", res |-> Empty, text |-> t]

\* The match step of run_find: regex.search(r, text), group(0); the pending
\* text is left as it is.
run_find_match(r, t) ==
    LET m == regex_search(r, t, FALSE)
    IN  IF m.found
        THEN [status |-> "ok", res |-> Group0(t, m), text |-> t]
        ELSE [status |-> "NoMatch", res |-> Empty, text |-> t]

\* A _consume_assistant_text that keeps the head of the pending text instead
\* of its tail.
consume_assistant_text_keeping_head(prefix, text, value) ==
    LET m == regex_match([lazy |-> TRUE, atom |-> Lit(value)], text, TRUE)
    IN  IF m.found
        THEN [text |-> Take(text, Len(text) - m.end), prefix |-> Empty]
        ELSE [text |-> Empty, prefix |-> prefix \o value]

\* _consume_assistant_text: regex.match("(.*?)" + escape(value) + "(.*?)",
\* text_to_consume, DOTALL) after prefix_text += value.
consume_assistant_text(prefix, text, value) ==
    LET m == regex_match([lazy |-> TRUE, atom |-> Lit(value)], text, TRUE)
    IN  IF m.found
        THEN [text |-> Drop(text, m.end), prefix |-> Empty]
        ELSE [text |-> Empty, prefix |-> prefix \o value]

----------------------------------------------------------------------------
(* The session *)

InitTemperature == 0

InitTopP == 1

InitMaxTokens == 1000

Seeds == {11}

Responses == Texts(MaxLen)

\* The values handed to _consume_assistant_text.
ConsumeValues == UNION {[1..k -> {"a"}] : k \in 0..MaxPrefix}

\* lm.temperature, lm.top_p, lm.max_tokens
Sampling == [temperature |-> temperature, top_p |-> top_p, max_tokens |-> max_tokens]

\* The request in flight: the field it is made for, the transcript and the
\* sampling parameters handed to request_api.
NoCall == [field |-> NoField, sent |-> <<>>, sampling |-> NoSampling]

\* What the last finished call did: its operation and field name, its
\* outcome, the value it returned, whether it fetched, the pending text the
\* match step ran on, and prefix_text at the start of the call.
NoLast ==
    [op |-> "none", name |-> "", status |-> "none", res |-> Empty,
     fetched |-> FALSE, before |-> Empty, prefix |-> Empty]

\* lm._variables[name] = res
store(v, name, res) ==
    [n \in DOMAIN v \cup {name} |-> IF n = name THEN res ELSE v[n]]

\* A run_find that keeps the value already stored under the name.
run_find_store_first(v, name, res) ==
    IF name \in DOMAIN v THEN v ELSE store(v, name, res)

\* run_find records the value itself.
run_find_store(v, name, res) == store(v, name, res)

\* The field orchestrator records the value a resolve returned.
record_value(v, name, res) == store(v, name, res)

\* _get_gen / _get_select / _get_find: the pattern and the flags handed to
\* run or run_find.
resolve_match(f, t) ==
    CASE f.kind = "gen" -> run_match(gen_regex(f), t, TRUE, f.save)
      [] f.kind = "select" -> run_match(select_regex(f), t, FALSE, FALSE)
      [] f.kind = "find" -> run_find_match(find_regex(f), t)

resolve_fetch(f, p, c, prefix, response) ==
    IF f.kind = "find" THEN run_find_fetch(p, c, prefix, response)
    ELSE run_fetch(p, c, prefix, response)

Fields == GenFields \cup SelectFields \cup FindFields

\* The longer completions, for the sessions that only resolve Select fields.
LongResponses == Texts(MaxLongLen)

\* resolve_match tabulated once over the fields and the pending texts of the
\* model.
MatchTable == [f \in Fields, t \in LongResponses |-> resolve_match(f, t)] @@ <<>>

Init ==
    /\ provider \in Providers
    /\ chat \in Transcripts
    /\ text_to_consume = Empty
    /\ prefix_text = Empty
    /\ variables = <<>>
    /\ temperature = InitTemperature
    /\ top_p = InitTopP
    /\ max_tokens = InitMaxTokens
    /\ seed \in Seeds
    /\ pc = "idle"
    /\ call = NoCall
    /\ attempts = 0
    /\ last = NoLast

Idle == /\ pc' = "idle" /\ call' = NoCall /\ attempts' = 0

\* The match step and what follows it, on pending text t.
Complete(f, fetched, t, newPrefix) ==
    LET out == MatchTable[f, t]
    IN  /\ text_to_consume' = out.text
        /\ prefix_text' = newPrefix
        /\ variables' =
              IF out.status # "ok" THEN variables
              ELSE IF f.kind = "find" THEN run_find_store(variables, f.name, out.res)
              ELSE record_value(variables, f.name, out.res)
        /\ last' = [op |-> f.kind, name |-> f.name, status |-> out.status,
                    res |-> out.res, fetched |-> fetched, before |-> t,
                    prefix |-> prefix_text]
        /\ Idle

\* The call raises before or instead of the match step.
Raise(f, status) ==
    /\ last' = [op |-> f.kind, name |-> f.name, status |-> status, res |-> Empty,
                fetched |-> FALSE, before |-> text_to_consume,
                prefix |-> prefix_text]
    /\ Idle
    /\ UNCHANGED <<text_to_consume, prefix_text, variables>>

\* A run that asks the provider whatever the pending text holds.
Begin_always_fetching(f) ==
    LET pr == prepare(provider, chat)
    IN  IF pr.status = "ok"
        THEN /\ pc' = "requesting"
             /\ call' = [field |-> f, sent |-> pr.sent, sampling |-> Sampling']
             /\ attempts' = 0
             /\ last' = NoLast
             /\ UNCHANGED <<text_to_consume, prefix_text, variables>>
        ELSE Raise(f, pr.status)

\* run / run_find up to the network call.
Begin(f) ==
    IF text_to_consume = Empty
    THEN LET pr == prepare(provider, chat)
         IN  IF pr.status = "ok"
             THEN /\ pc' = "requesting"
                  /\ call' = [field |-> f, sent |-> pr.sent, sampling |-> Sampling']
                  /\ attempts' = 0
                  /\ last' = NoLast
                  /\ UNCHANGED <<text_to_consume, prefix_text, variables>>
             ELSE Raise(f, pr.status)
    ELSE Complete(f, FALSE, text_to_consume, prefix_text)

ResolveGen(f) ==
    /\ pc = "idle"
    /\ temperature' = f.sampling.temperature
    /\ top_p' = f.sampling.top_p
    /\ max_tokens' = f.sampling.max_tokens
    /\ Begin(f)
    /\ UNCHANGED <<provider, chat, seed>>

ResolveSelect(f) ==
    /\ pc = "idle"
    /\ UNCHANGED <<temperature, top_p, max_tokens>>
    /\ Begin(f)
    /\ UNCHANGED <<provider, chat, seed>>

\* A _get_find that adopts max_tokens as well.
ResolveFind_with_max_tokens(f) ==
    /\ pc = "idle"
    /\ temperature' = f.sampling.temperature
    /\ top_p' = f.sampling.top_p
    /\ max_tokens' = f.sampling.max_tokens
    /\ Begin(f)
    /\ UNCHANGED <<provider, chat, seed>>

ResolveFind(f) ==
    /\ pc = "idle"
    /\ temperature' = f.sampling.temperature
    /\ top_p' = f.sampling.top_p
    /\ UNCHANGED max_tokens
    /\ Begin(f)
    /\ UNCHANGED <<provider, chat, seed>>

\* The network call raises an error of the given kind.  When the backoff
\* decorator retries on it the call is made again (attempts counts the calls
\* that have failed); otherwise the error goes through to the caller.
ProviderRaises(kind) ==
    /\ pc = "requesting"
    /\ IF retried(provider, kind)
       THEN /\ attempts < MaxFailures
            /\ attempts' = attempts + 1
            /\ UNCHANGED <<text_to_consume, prefix_text, variables, pc, call, last>>
       ELSE Raise(call.field, "ProviderError")
    /\ UNCHANGED <<provider, chat, seed, temperature, top_p, max_tokens>>

\* The network call returns a completion: the rest of run / run_find.
ProviderReturns(response) ==
    /\ pc = "requesting"
    /\ LET n == resolve_fetch(call.field, provider, chat, prefix_text, response)
       IN  Complete(call.field, TRUE, n.text, n.prefix)
    /\ UNCHANGED <<provider, chat, seed, temperature, top_p, max_tokens>>

ConsumeAssistantText(value) ==
    /\ pc = "idle"
    /\ LET n == consume_assistant_text(prefix_text, text_to_consume, value)
       IN  /\ Len(n.prefix) <= MaxPrefix
           /\ text_to_consume' = n.text
           /\ prefix_text' = n.prefix
           /\ last' = [NoLast EXCEPT !.op = "consume", !.res = value,
                          !.status = "ok", !.before = text_to_consume,
                          !.prefix = prefix_text]
    /\ Idle
    /\ UNCHANGED <<provider, chat, seed, temperature, top_p, max_tokens, variables>>

Next ==
    \/ \E f \in GenFields : ResolveGen(f)
    \/ \E f \in SelectFields : ResolveSelect(f)
    \/ \E f \in FindFields : ResolveFind(f)
    \/ \E kind \in ErrorKinds : ProviderRaises(kind)
    \/ \E response \in Responses : ProviderReturns(response)
    \/ \E value \in ConsumeValues : ConsumeAssistantText(value)

Spec == Init /\ [][Next]_vars

\* The executions in which the provider fails with its rate-limit error
\* alone, and answers in the end.
TransientKinds == {"RateLimit"}

TransientNext ==
    \/ \E f \in GenFields : ResolveGen(f)
    \/ \E f \in SelectFields : ResolveSelect(f)
    \/ \E f \in FindFields : ResolveFind(f)
    \/ \E kind \in TransientKinds : ProviderRaises(kind)
    \/ \E response \in Responses : ProviderReturns(response)
    \/ \E value \in ConsumeValues : ConsumeAssistantText(value)

\* Sessions on a transcript of one user turn, for which every provider is
\* sent a request.
TransientInit == Init /\ Len(chat) = 1 /\ LastTurn(chat).role = "user"

TransientSpec ==
    /\ TransientInit
    /\ [][TransientNext]_vars
    /\ WF_vars(\E response \in Responses : ProviderReturns(response))

\* Sessions that resolve Select fields only, on completions of up to
\* MaxLongLen characters.
SelectNext ==
    \/ \E f \in SelectFields : ResolveSelect(f)
    \/ \E response \in LongResponses : ProviderReturns(response)

SelectSpec == TransientInit /\ [][SelectNext]_vars

----------------------------------------------------------------------------
(* Properties *)

ResolveOf(f) ==
    CASE f.kind = "gen" -> ResolveGen(f)
      [] f.kind = "select" -> ResolveSelect(f)
      [] f.kind = "find" -> ResolveFind(f)

\* A step that starts the resolve of f: it leaves the request for f in flight,
\* or ends the resolve of a field of f's kind.
Resolves(f) ==
    /\ pc = "idle"
    /\ IF pc' = "requesting" THEN call'.field = f ELSE last'.op = f.kind
    /\ ResolveOf(f)

\* A step that resolves f on pending text that is already there.
ResolvePending(f) == pc = "idle" /\ text_to_consume # Empty /\ ResolveOf(f)

\* A step in which the provider answers the request made for f: of the steps
\* that end a request, the ProviderReturns ones are those that set last.fetched.
ResolveFetched(f) ==
    /\ pc = "requesting"
    /\ call.field = f
    /\ pc' = "idle"
    /\ last'.fetched

\* A step that runs the match step of f; last'.before is the text it ran on.
MatchStep(f) ==
    /\ last'.op = f.kind
    /\ last'.status \in {"ok", "NoMatch"}
    /\ ResolvePending(f) \/ ResolveFetched(f)

Occurs(a, t) == \E j \in 0..Len(t) : AtomLen(a, t, j) >= 0

FirstOccurrence(a, t) == Min({j \in 0..Len(t) : AtomLen(a, t, j) >= 0})

\* C1: resolving a Gen with a stop pattern and save_stop_text false, when the
\* terminator occurs in the pending text, returns the text before the first
\* terminator and removes that text and the terminator from the pending text.
C1_GenStopRemovesTerminator ==
    [][\A f \in GenFields :
          (f.pat.kind # "none" /\ ~f.save /\ MatchStep(f)
              /\ Occurs(f.pat, last'.before))
          => LET t == last'.before
                 j == FirstOccurrence(f.pat, t)
             IN  /\ last'.res = Take(t, j)
                 /\ text_to_consume' = Drop(t, j + AtomLen(f.pat, t, j))]_vars

\* C2: resolving a Gen without a stop pattern on non-empty pending text
\* returns the whole pending text and leaves the pending text empty.
C2_GenNoStopTakesAll ==
    [][\A f \in GenFields :
          (f.pat.kind = "none" /\ ResolvePending(f))
          => /\ last'.res = text_to_consume
             /\ text_to_consume' = Empty]_vars

\* C3: after a Find is resolved successfully the pending text is empty (so
\* the next resolve fetches).
C3_FindDiscardsPending ==
    (last.op = "find" /\ last.status = "ok") => text_to_consume = Empty

\* The transcript without a trailing empty assistant turn and without one
\* further trailing assistant turn.
TrimmedTwice(c) ==
    LET t1 == IF LastTurn(c) = [role |-> "assistant", content |-> Empty]
              THEN ButLast(c) ELSE c
    IN  IF t1 # <<>> /\ LastTurn(t1).role = "assistant" THEN ButLast(t1) ELSE t1

\* C4: for a strict-turn provider no request is in flight with a transcript
\* whose last turn is an assistant turn: what is sent is the transcript without
\* a trailing empty assistant turn and without one further trailing assistant
\* turn, and when the last turn is an assistant turn even so, the call fails
\* with ProtocolViolation and no request is made.
C4_StrictNeverEndsInAssistant ==
    ~api_assistant(provider) =>
        LET t == TrimmedTwice(chat)
        IN  /\ pc = "requesting" =>
                  /\ call.sent = t
                  /\ call.sent # <<>>
                  /\ LastTurn(call.sent).role # "assistant"
            /\ (t # <<>> /\ LastTurn(t).role = "assistant") =>
                  /\ pc = "idle"
                  /\ ~last.fetched
                  /\ last.op \in {"gen", "select", "find"} =>
                        last.status = "ProtocolViolation"
            /\ last.status = "ProtocolViolation" =>
                  /\ ~last.fetched
                  /\ last.before = Empty
                  /\ t # <<>>
                  /\ LastTurn(t).role = "assistant"

C4_Witness ==
    /\ provider = "mistral"
    /\ last.op = "gen"
    /\ last.status = "ProtocolViolation"
    /\ LastTurn(chat).role = "assistant"
    /\ LastTurn(chat).content # Empty

\* The text a strict-turn fetch is left with when the response is the prefix
\* already emitted followed by a new tail.
NewTail(response) == Drop(response, Len(prefix_text))

StrictEcho(response) ==
    /\ ~api_assistant(provider)
    /\ ProviderReturns(response)
    /\ startswith(response, prefix_text)

\* C5 as stated: on a strict-turn session a fetch that returns prefix_text
\* followed by a tail stores exactly the tail as pending text and resets
\* prefix_text, whatever the last turn of the transcript contains.
C5_FetchStoresNewTail ==
    [][\A response \in Responses :
          StrictEcho(response)
          => /\ last'.before = NewTail(response)
             /\ prefix_text' = Empty]_vars

\* C5 amended: on a strict-turn session a fetch that returns prefix_text
\* followed by a tail resets prefix_text and stores the tail; in run (Gen,
\* Select), when the stripped content of the transcript's last turn is a
\* prefix of the tail, that prefix is removed from the tail as well.
C5_FetchStoresNewTailPastPrompt ==
    [][\A response \in Responses :
          StrictEcho(response)
          => LET tail == NewTail(response)
                 p == strip(LastTurn(chat).content)
             IN  /\ prefix_text' = Empty
                 /\ last'.before =
                       IF call.field.kind # "find" /\ startswith(tail, p)
                       THEN Drop(tail, Len(p)) ELSE tail]_vars

C5_Witness ==
    /\ ~api_assistant(provider)
    /\ last.fetched
    /\ last.prefix = <<"a">>
    /\ prefix_text = Empty
    /\ last.before = <<"1">>

AllInts(f) == \A k \in 1..Len(f.options) : can_be_int(f.options[k])

PrefixOptions(f, t) == {k \in 1..Len(f.options) : startswith(t, f.options[k])}

\* C6: for a Select whose pattern matches at the start of the pending text
\* the value is that match (the whole leading digit run when every option is
\* an integer, else the first-listed option that is a prefix of the pending
\* text) and the pending text is advanced past the value and no further.
C6_SelectAnchored ==
    [][\A f \in SelectFields :
          MatchStep(f)
          => LET t == last'.before
             IN  /\ (AllInts(f) /\ DigitRun(t, 0) > 0)
                     => /\ last'.status = "ok"
                        /\ last'.res = Take(t, DigitRun(t, 0))
                        /\ text_to_consume' = Drop(t, DigitRun(t, 0))
                 /\ (~AllInts(f) /\ PrefixOptions(f, t) # {})
                     => LET o == f.options[Min(PrefixOptions(f, t))]
                        IN  /\ last'.status = "ok"
                            /\ last'.res = o
                            /\ text_to_consume' = Drop(t, Len(o))]_vars

C6_Witness ==
    /\ last.op = "select"
    /\ last.status = "ok"
    /\ last.before = <<"a", "1">>
    /\ last.res = <<"a">>
    /\ text_to_consume = <<"1">>

\* C7: when the provider raises its transient error on some attempts and
\* then answers, every failed attempt leaves the request in flight and the
\* session untouched (no error reaches the caller, nothing is extracted), and
\* the request, however many attempts have failed, ends with the answer
\* fetched and one match step run on it.
C7_TransientRetried ==
    /\ [][\A kind \in TransientKinds :
             ProviderRaises(kind)
             => /\ pc' = "requesting"
                /\ attempts' = attempts + 1
                /\ UNCHANGED <<call, last, text_to_consume, prefix_text,
                               variables>>]_vars
    /\ [](attempts > 0 => (pc = "requesting" /\ last = NoLast))
    /\ pc = "requesting"
          ~> (pc = "idle" /\ last.fetched /\ last.status \in {"ok", "NoMatch"})

C7_Witness == pc = "requesting" /\ attempts = MaxFailures /\ last = NoLast

\* C8: for every adapter a provider failure that is not the rate-limit /
\* overload error reaches the caller the first time it occurs: the call is
\* not made again.
C8_FatalNotRetried ==
    [][(pc = "requesting" /\ ProviderRaises("Auth"))
          => /\ pc' = "idle"
             /\ last'.status = "ProviderError"
             /\ attempts' = 0]_vars

PatternAtom(f) == IF f.kind = "select" THEN select_regex(f).atom ELSE f.pat

\* C9: resolving a Select or a Find whose pattern occurs nowhere in the
\* pending text (after the fetch, if there is one) fails with NoMatch, returns
\* nothing, and leaves the name -> value mapping as it was.
C9_NoMatchNoFallthrough ==
    [][\A f \in SelectFields \cup FindFields :
          (MatchStep(f) /\ ~Occurs(PatternAtom(f), last'.before))
          => /\ last'.status = "NoMatch"
             /\ last'.res = Empty
             /\ variables' = variables]_vars

C9_Witness ==
    /\ last.op = "select"
    /\ last.status = "NoMatch"
    /\ last.before = <<"a", Newline>>
    /\ "x" \in DOMAIN variables
    /\ variables["x"] = <<"1">>

ResolveStarts == \E f \in Fields : Resolves(f)

\* The transcript is one the provider's adapter sends: any for OpenAI, for a
\* strict-turn provider one that twice trimmed is not empty and does not end
\* in an assistant turn.
Sendable ==
    \/ api_assistant(provider)
    \/ /\ TrimmedTwice(chat) # <<>>
       /\ LastTurn(TrimmedTwice(chat)).role # "assistant"

\* Within one resolve request_api is called once: a request in flight is
\* followed by the same request (an attempt that failed) or by the end of the
\* resolve; and a resolve on non-empty pending text matches on that text.
OneRequest ==
    /\ pc = "requesting" => (pc' = "idle" \/ (call' = call /\ attempts' = attempts + 1))
    /\ (ResolveStarts /\ text_to_consume # Empty)
          => (pc' = "idle" /\ ~last'.fetched /\ last'.before = text_to_consume)

\* C11 as stated: a resolve issues a network request if and only if the
\* pending text is empty when it starts, and at most one request; on
\* non-empty pending text it matches on that text and makes no request.
C11_FetchIffEmpty ==
    [][/\ ResolveStarts => (pc' = "requesting" <=> text_to_consume = Empty)
       /\ OneRequest]_vars

\* C11 amended: a resolve issues a network request if and only if the pending
\* text is empty when it starts and the transcript is one the adapter sends
\* (else the resolve fails before any request); at most one request; on
\* non-empty pending text it matches on that text and makes no request.
C11_FetchIffEmptyAndSendable ==
    [][/\ ResolveStarts
             => (pc' = "requesting" <=> (text_to_consume = Empty /\ Sendable))
       /\ OneRequest]_vars

C11_Witness ==
    /\ pc = "requesting"
    /\ attempts = 0
    /\ text_to_consume = Empty
    /\ "x" \in DOMAIN variables


\* C12: resolving a Gen with a stop pattern whose terminator occurs nowhere
\* in the pending text does not fail: the value is the whole pending text and
\* the pending text is left empty.
C12_GenStopAbsentTakesAll ==
    [][\A f \in GenFields :
          (f.pat.kind # "none" /\ MatchStep(f) /\ ~Occurs(f.pat, last'.before))
          => /\ last'.status = "ok"
             /\ last'.res = last'.before
             /\ text_to_consume' = Empty]_vars

C12_Witness ==
    /\ last.op = "gen"
    /\ last.status = "ok"
    /\ last.before = <<"a", "a">>
    /\ last.res = <<"a", "a">>
    /\ text_to_consume = Empty


\* The offsets of t at which the pattern of Select f matches.
SelectOffsets(f, t) ==
    IF AllInts(f) THEN {j \in 0..(Len(t) - 1) : t[j + 1] \in Digits}
    ELSE {j \in 0..Len(t) : \E k \in 1..Len(f.options) : StartsAt(t, f.options[k], j)}

\* The match at offset j: the digit run, or the earliest-listed option there.
SelectAt(f, t, j) ==
    IF AllInts(f) THEN SubSeq(t, j + 1, j + DigitRun(t, j))
    ELSE f.options[Min({k \in 1..Len(f.options) : StartsAt(t, f.options[k], j)})]

\* C13: for a Select whose pattern matches in the pending text but not at its
\* start, the value is the match at the leftmost offset (the earliest-listed
\* of the options matching there), and the pending text is left empty.
C13_SelectLeftmost ==
    [][\A f \in SelectFields :
          LET t == last'.before
          IN  (MatchStep(f) /\ SelectOffsets(f, t) # {} /\ 0 \notin SelectOffsets(f, t))
              => /\ last'.status = "ok"
                 /\ last'.res = SelectAt(f, t, Min(SelectOffsets(f, t)))
                 /\ text_to_consume' = Empty]_vars

C13_Witness ==
    /\ last.op = "select"
    /\ last.status = "ok"
    /\ last.before = <<Newline, "a", "1">>
    /\ last.res = <<"a">>
    /\ text_to_consume = Empty


\* A step in which a strict-turn session is handed the completion.
StrictFetch(response) == ~api_assistant(provider) /\ ProviderReturns(response)

PrefixOffsets(response) ==
    {j \in 0..Len(response) : StartsAt(response, prefix_text, j)}

\* The completion past the first occurrence of prefix_text, or the whole
\* completion when prefix_text does not occur in it.
PastFirstPrefix(response) ==
    IF PrefixOffsets(response) = {} THEN response
    ELSE Drop(response, Min(PrefixOffsets(response)) + Len(prefix_text))

\* C14: on a strict-turn fetch, when prefix_text occurs in the completion
\* all up to and including its first occurrence is discarded, when it does not
\* the whole completion becomes the pending text; prefix_text is reset either
\* way.  (The text the match step runs on is that text, with or without the
\* prompt prefix.)
C14_StrictNormalization ==
    [][\A response \in Responses :
          StrictFetch(response)
          => /\ prefix_text' = Empty
             /\ last'.before \in
                   {PastFirstPrefix(response),
                    strip_prompt_prefix(chat, PastFirstPrefix(response))}]_vars

\* The completion after the echoed-prefix step of the session's provider.
Normalized(response) ==
    IF api_assistant(provider) \/ ~startswith(response, prefix_text)
    THEN response ELSE Drop(response, Len(prefix_text))

\* C15: after a fetch made by run or by run_find, for either kind of provider,
\* when the stripped content of the transcript's last turn is a prefix of
\* the normalized completion it is removed before the text is stored and
\* matched.
C15_PromptPrefixRemoved ==
    [][\A response \in Responses :
          LET n == Normalized(response)
              p == strip(LastTurn(chat).content)
          IN  (ProviderReturns(response) /\ startswith(n, p))
              => last'.before = Drop(n, Len(p))]_vars


\* The sampling parameters in force once field f is being resolved.
Adopted(f) ==
    CASE f.kind = "gen" -> f.sampling
      [] f.kind = "find" ->
            [temperature |-> f.sampling.temperature, top_p |-> f.sampling.top_p,
             max_tokens |-> max_tokens]
      [] f.kind = "select" -> Sampling

\* C16: the sampling parameters sent with a request are those adopted from
\* the field being resolved, adopted before its fetch: a Gen sets temperature,
\* top_p and max_tokens, a Find sets temperature and top_p and leaves
\* max_tokens, a Select leaves all three, so that its request carries what
\* earlier fields left (0.0, 1.0, 1000 at first); no step changes the seed.
C16_SamplingAdopted ==
    /\ temperature = InitTemperature /\ top_p = InitTopP /\ max_tokens = InitMaxTokens
    /\ [](pc = "requesting" => call.sampling = Sampling)
    /\ [][/\ seed' = seed
          /\ \A f \in Fields :
                Resolves(f)
                => /\ Sampling' = Adopted(f)
                   /\ pc' = "requesting" => call'.sampling = Adopted(f)]_vars

C16_Witness ==
    /\ pc = "requesting"
    /\ call.field.kind = "select"
    /\ call.sampling = [temperature |-> 3, top_p |-> 5, max_tokens |-> 50]


\* A step in which a strict-turn session is handed a completion in which
\* prefix_text occurs.
AlignedFetch ==
    \E response \in Responses :
        StrictFetch(response) /\ PrefixOffsets(response) # {}

\* C17: prefix_text goes from non-empty to empty in a step if and only if the
\* step is a fetch whose completion aligns with prefix_text; in every other
\* step prefix_text is unchanged or grows by appending.
C17_PrefixResetOnlyByFetch ==
    [][/\ (prefix_text # Empty /\ prefix_text' = Empty)
             <=> (prefix_text # Empty /\ AlignedFetch)
       /\ ~AlignedFetch => startswith(prefix_text', prefix_text)]_vars

\* C18: _consume_assistant_text appends the value to prefix_text; when the
\* value is not found in the pending text prefix_text is cleared, and when it
\* is found prefix_text is kept with the value appended.
C18_ConsumeBookkeeping ==
    [][\A value \in ConsumeValues :
          ConsumeAssistantText(value)
          => prefix_text' =
                IF \E j \in 0..Len(text_to_consume) : StartsAt(text_to_consume, value, j)
                THEN prefix_text \o value ELSE Empty]_vars


IsOption(f, v) == \E k \in 1..Len(f.options) : v = f.options[k]

IsDigitRun(v) == v # Empty /\ \A i \in 1..Len(v) : v[i] \in Digits

\* C19 as stated: whenever a Select resolves successfully the value is one of
\* the options of the field.
C19_SelectValueIsOption ==
    [][\A f \in SelectFields :
          (MatchStep(f) /\ last'.status = "ok") => IsOption(f, last'.res)]_vars

\* C19 amended: whenever a Select resolves successfully the value is one of
\* the options of the field when some option is not an integer, and a
\* non-empty run of digits (an option or not) when every option is an integer.
C19_SelectValueIsOptionOrDigits ==
    [][\A f \in SelectFields :
          (MatchStep(f) /\ last'.status = "ok")
          => IF AllInts(f) THEN IsDigitRun(last'.res) ELSE IsOption(f, last'.res)]_vars

C19_Witness ==
    /\ last.op = "select"
    /\ last.status = "ok"
    /\ last.before = <<"a", "1", "1">>
    /\ last.res = <<"1", "1">>

IsSuffix(s, t) == Len(s) <= Len(t) /\ s = Drop(t, Len(t) - Len(s))

\* C20: in every step that performs no fetch (a resolve or a bookkeeping
\* call on the pending text there is, succeeding or failing) the pending text
\* afterwards is a suffix of the pending text before.
C20_PendingOnlyShrinks ==
    [][~(pc = "requesting" /\ last'.fetched)
          => IsSuffix(text_to_consume', text_to_consume)]_vars

C20_Witness ==
    /\ last.op = "gen"
    /\ ~last.fetched
    /\ last.before = <<"1", "a">>
    /\ text_to_consume = <<"a">>

====
